---- MODULE Spec2Model ----
(***************************************************************************)
(* Model of AlphaBetaAgent (ConnectN/alpha_beta_agent.py): the evaluator   *)
(* heuristics, the successor generator get_successors, the mutually        *)
(* recursive searchers maxValue / minValue and the iterative-deepening     *)
(* controller makeMove.  The board collaborator (board.Board) is not part  *)
(* of the source file; its operations are modelled from the interface      *)
(* description in the specification.                                       *)
(***************************************************************************)
EXTENDS Integers, Sequences, FiniteSets, TLC

\* ---------------------------------------------------------------- bounds
\* Largest max_depth an agent is constructed with.
MaxDepthBound == 4
\* Seconds by which one step of the wall clock advances.
TickStep == 7

\* ------------------------------------------------- board geometry (brd.*)
W == 3
H == 3
N == 3

\* ------------------------------------------------------ program constants
WIN == 99999999
LOSS == -99999999
MaxInit == -999999999
MinInit == 999999999
StopHigh == 9999999
StopLow == -9999999
TimeBudget == 12

Cols == 0 .. (W - 1)
Rows == 0 .. (H - 1)

\* ------------------------------------------------------------ the board
EmptyBoard == [board |-> [y \in Rows |-> [x \in Cols |-> 0]], player |-> 1]

\* The four directions in which a line can run.
Dirs == { <<1, 0>>, <<0, 1>>, <<1, 1>>, <<1, -1>> }

\* The cells of the line of N cells starting at (x, y) in direction d.
LineCells(x, y, d) == { <<x + k * d[1], y + k * d[2]>> : k \in 0 .. (N - 1) }

\* Every line of N cells lying wholly on the grid.
Lines ==
  { l \in { LineCells(x, y, d) : x \in Cols, y \in Rows, d \in Dirs } :
      \A c \in l : c[1] \in Cols /\ c[2] \in Rows }

\* Board.completableLineAt / brd.is_any_line_at(x, y): the cell takes part in
\* a line of the target length that no other marker blocks.
is_any_line_at(brd, x, y) ==
  \E l \in Lines :
    /\ <<x, y>> \in l
    /\ \A c \in l : brd.board[c[2]][c[1]] \in {0, brd.board[y][x]}

\* The cell takes part in a completed line of its own marker.
CompleteLineAt(brd, x, y) ==
  /\ brd.board[y][x] # 0
  /\ \E l \in Lines :
       /\ <<x, y>> \in l
       /\ \A c \in l : brd.board[c[2]][c[1]] = brd.board[y][x]

\* Board.outcome / brd.get_outcome(): the marker that has completed a line
\* (the first one met scanning columns, then rows), 0 while undecided.
get_outcome(brd) ==
  LET won == { x * H + y : x \in Cols, y \in Rows } \cap
             { k \in 0 .. (W * H - 1) : CompleteLineAt(brd, k \div H, k % H) }
  IN IF won = {} THEN 0
     ELSE LET k == CHOOSE m \in won : \A o \in won : m <= o
          IN brd.board[k % H][k \div H]

\* Board.freeColumns / brd.free_cols(): the non-full columns, ascending.
RECURSIVE FreeFrom(_, _)
FreeFrom(brd, x) ==
  IF x >= W THEN << >>
  ELSE IF brd.board[H - 1][x] = 0 THEN <<x>> \o FreeFrom(brd, x + 1)
       ELSE FreeFrom(brd, x + 1)

free_cols(brd) == FreeFrom(brd, 0)

\* Board.dropToken / nb.add_token(col) on a clone of brd: the token of the
\* player to move lands in the lowest open cell, then the turn passes.
add_token(brd, col) ==
  LET y == CHOOSE r \in Rows :
             /\ brd.board[r][col] = 0
             /\ \A q \in Rows : q < r => brd.board[q][col] # 0
  IN [board |-> [brd.board EXCEPT ![y][col] = brd.player],
      player |-> IF brd.player = 1 THEN 2 ELSE 1]

\* -------------------------------------------------------- the evaluator
RECURSIVE SumSeverity(_, _, _, _)
SumSeverity(brd, me, opponent, k) ==
  IF k >= W * H THEN 0
  ELSE LET i == k \div H
           j == k % H
           d == IF brd.board[j][i] # 0 /\ is_any_line_at(brd, i, j)
                THEN IF brd.board[j][i] = opponent THEN -5
                     ELSE IF brd.board[j][i] = me THEN 1 ELSE 0
                ELSE 0
       IN d + SumSeverity(brd, me, opponent, k + 1)

heuristics(brd, player) ==
  LET me == IF player = 1 THEN 1 ELSE 2
      opponent == IF player = 1 THEN 2 ELSE 1
  IN IF get_outcome(brd) = me /\ brd.player = opponent THEN WIN
     ELSE IF get_outcome(brd) = opponent /\ brd.player = me THEN LOSS
     ELSE SumSeverity(brd, me, opponent, 0)

\* ------------------------------------------------ the successor generator
\* A successor (nb, col); None is the absent successor, IntZero the integer
\* 0 that makeMove starts bestMove with.  nb is a clone made by the search
\* that built the pair, so the pairs of two searches are different objects
\* even for the same column: obj tells them apart.
None == [tag |-> "None", col |-> -1, obj |-> -1]
IntZero == [tag |-> "Int", col |-> 0, obj |-> -1]
Succ(col) == [tag |-> "Succ", col |-> col, obj |-> 0]

\* The pair m as the object built by search number id.
Fresh(m, id) == IF m.tag = "Succ" THEN [m EXCEPT !.obj = id] ELSE m

\* The list of (new board, column) pairs, one per free column, ascending.
get_successors(brd) ==
  LET freecols == free_cols(brd)
  IN [k \in 1 .. Len(freecols) |->
        [nb |-> add_token(brd, freecols[k]), col |-> freecols[k]]]

terminalCondition(n) == IF n = 0 THEN -1 ELSE 0

\* ------------------------------------------------------- the searchers
\* A searcher returns the pair (successor, score).  Two records of what the
\* call did are returned with it: edges, the calls made (caller kind, callee
\* kind, the depth and the player passed), and rets, the results returned on
\* boards without a free column.
Result(move, score, edges, rets) ==
  [move |-> move, score |-> score, edges |-> edges, rets |-> rets]

Edge(caller, callee, n, player) ==
  [caller |-> caller, callee |-> callee, n |-> n, player |-> player]

FullRet(kind, brd, n, player, move, score) ==
  IF Len(free_cols(brd)) = 0
  THEN { [kind |-> kind, n |-> n, move |-> move, score |-> score,
          heur |-> heuristics(brd, player)] }
  ELSE {}

\* The one element of a one-element set.
The(S) == CHOOSE x \in S : TRUE

RECURSIVE maxValue(_, _, _, _, _)
RECURSIVE minValue(_, _, _, _, _)
RECURSIVE maxLoop(_, _, _, _, _, _, _, _, _, _)
RECURSIVE minLoop(_, _, _, _, _, _, _, _, _, _)

\* The body of maxValue's for loop from successor k on.
maxLoop(succ, k, n, alpha, beta, player, bestMove, bestBoard, edges, rets) ==
  IF k > Len(succ) THEN Result(bestBoard, bestMove, edges, rets)
  ELSE The({
    LET move == r.score
        bm == IF move > bestMove THEN move ELSE bestMove
        bb == IF move > bestMove THEN Succ(succ[k].col) ELSE bestBoard
        e == edges \cup r.edges \cup {Edge("max", "min", n - 1, player)}
        t == rets \cup r.rets
    IN IF bm >= beta THEN Result(bb, bm, e, t)
       ELSE The({ maxLoop(succ, k + 1, n, IF v.bm >= alpha THEN v.bm ELSE alpha,
                          beta, player, v.bm, v.bb, v.e, v.t) :
                  v \in {[bm |-> bm, bb |-> bb, e |-> e, t |-> t]} })
    : r \in {minValue(succ[k].nb, n - 1, alpha, beta, player)} })

maxValue(brd, n, alpha, beta, player) ==
  IF terminalCondition(n) = -1
  THEN The({ Result(None, h, {Edge("max", "heuristics", n, player)},
                    FullRet("max", brd, n, player, None, h)) :
             h \in {heuristics(brd, player)} })
  ELSE The({ Result(r.move, r.score, r.edges,
                    r.rets \cup FullRet("max", brd, n, player, r.move, r.score)) :
             r \in {maxLoop(get_successors(brd), 1, n, alpha, beta, player,
                            MaxInit, None, {}, {})} })

\* The body of minValue's for loop from successor k on.
minLoop(succ, k, n, alpha, beta, player, worstMove, worstBoard, edges, rets) ==
  IF k > Len(succ) THEN Result(worstBoard, worstMove, edges, rets)
  ELSE The({
    LET move == r.score
        wm == IF move < worstMove THEN move ELSE worstMove
        wb == IF move < worstMove THEN Succ(succ[k].col) ELSE worstBoard
        e == edges \cup r.edges \cup {Edge("min", "max", n - 1, player)}
        t == rets \cup r.rets
    IN IF wm <= beta THEN Result(wb, wm, e, t)
       ELSE The({ minLoop(succ, k + 1, n, IF v.wm <= alpha THEN v.wm ELSE alpha,
                          beta, player, v.wm, v.wb, v.e, v.t) :
                  v \in {[wm |-> wm, wb |-> wb, e |-> e, t |-> t]} })
    : r \in {maxValue(succ[k].nb, n - 1, alpha, beta, player)} })

minValue(brd, n, alpha, beta, player) ==
  IF terminalCondition(n) = -1
  THEN The({ Result(None, h, {Edge("min", "heuristics", n, player)},
                    FullRet("min", brd, n, player, None, h)) :
             h \in {heuristics(brd, player)} })
  ELSE The({ Result(r.move, r.score, r.edges,
                    r.rets \cup FullRet("min", brd, n, player, r.move, r.score)) :
             r \in {minLoop(get_successors(brd), 1, n, alpha, beta, player,
                            MinInit, None, {}, {})} })

\* ------------------------------------------------------ the controller
VARIABLES
  brd,           \* the board the game has reached
  max_depth,     \* self.max_depth
  pc,            \* "play", or makeMove's position: "loop", "test", "clock", "done"
  i,             \* makeMove's loop variable
  bestSeverity,  \* makeMove's bestSeverity
  bestMove,      \* makeMove's bestMove
  board,         \* the successor returned by the last top-level search
  state,         \* the score returned by the last top-level search
  elapsed,       \* time.time() - clock
  ret,           \* what makeMove ended with: a returned column or a TypeError
  depths,        \* the depth limits of the top-level searches, in order
  scores,        \* their scores
  moves,         \* their successors
  edges,         \* the calls made by the last top-level search
  rets,          \* its results on boards without a free column
  late           \* top-level searches started after the budget was exceeded

vars == << brd, max_depth, pc, i, bestSeverity, bestMove, board, state,
           elapsed, ret, depths, scores, moves, edges, rets, late >>

game == << brd, max_depth >>
trace == << depths, scores, moves, edges, rets, late >>

NoRet == [tag |-> "none", col |-> -1]

\* x[1] on a successor pair is its column; on None (or an int) it raises.
Subscript1(m) ==
  IF m.tag = "Succ" THEN [tag |-> "return", col |-> m.col]
  ELSE [tag |-> "TypeError", col |-> -1]

\* Lines 159-162 with the test of line 161 left out.
SentinelStopWinOnly(s) == s >= StopHigh

\* The tests of lines 159 and 161.
SentinelStop(s) == s >= StopHigh \/ s <= StopLow

\* The test of line 174.
OverBudget(curTime) == curTime > TimeBudget

\* The top-level search of line 158.
TopSearch(b, depth) == minValue(b, depth, LOSS, WIN, b.player)

Init ==
  /\ brd = EmptyBoard
  /\ max_depth \in 1 .. MaxDepthBound
  /\ pc = "play"
  /\ i = 0
  /\ bestSeverity = 0
  /\ bestMove = IntZero
  /\ board = None
  /\ state = 0
  /\ elapsed = 0
  /\ ret = NoRet
  /\ depths = << >>
  /\ scores = << >>
  /\ moves = << >>
  /\ edges = {}
  /\ rets = {}
  /\ late = 0

\* The game goes on: the player to move drops a token in a free column.
Play(col) ==
  /\ pc = "play"
  /\ get_outcome(brd) = 0
  /\ \E k \in 1 .. Len(free_cols(brd)) : free_cols(brd)[k] = col
  /\ brd' = add_token(brd, col)
  /\ UNCHANGED << max_depth, pc, i, bestSeverity, bestMove, board, state,
                  elapsed, ret >>
  /\ UNCHANGED trace

\* go(brd): the agent is asked for a move on an undecided, non-full board;
\* makeMove runs up to its for loop.
Go ==
  /\ pc = "play"
  /\ get_outcome(brd) = 0
  /\ Len(free_cols(brd)) > 0
  /\ bestSeverity' = 0
  /\ bestMove' = IntZero
  /\ elapsed' = 0
  /\ i' = 0
  /\ pc' = "loop"
  /\ UNCHANGED << board, state, ret >>
  /\ UNCHANGED game
  /\ UNCHANGED trace

\* The wall clock advances while makeMove runs.
Tick ==
  /\ pc \in {"loop", "test", "clock"}
  /\ elapsed <= TimeBudget
  /\ elapsed' = elapsed + TickStep
  /\ UNCHANGED << pc, i, bestSeverity, bestMove, board, state, ret >>
  /\ UNCHANGED game
  /\ UNCHANGED trace

\* Line 158: one top-level search, at depth limit i.
SearchDepth ==
  /\ pc = "loop"
  /\ i < max_depth
  /\ \E r \in {TopSearch(brd, i)} :
       \E m \in {Fresh(r.move, Len(depths) + 1)} :
         /\ board' = m
         /\ state' = r.score
         /\ depths' = Append(depths, i)
         /\ scores' = Append(scores, r.score)
         /\ moves' = Append(moves, m)
         /\ edges' = r.edges \cup {Edge("makeMove", "min", i, brd.player)}
         /\ rets' = r.rets
  /\ late' = IF OverBudget(elapsed) THEN late + 1 ELSE late
  /\ pc' = "test"
  /\ UNCHANGED << i, bestSeverity, bestMove, elapsed, ret >>
  /\ UNCHANGED game

\* Lines 159-162: a score beyond the thresholds ends makeMove with board[1].
EarlyReturn ==
  /\ pc = "test"
  /\ SentinelStop(state)
  /\ ret' = Subscript1(board)
  /\ pc' = "done"
  /\ UNCHANGED << i, bestSeverity, bestMove, board, state, elapsed >>
  /\ UNCHANGED game
  /\ UNCHANGED trace

\* Lines 163-167: remember the result of this depth.
Remember ==
  /\ pc = "test"
  /\ ~ SentinelStop(state)
  /\ bestSeverity' = IF state > bestSeverity THEN state ELSE bestSeverity
  /\ bestMove' = board
  /\ pc' = "clock"
  /\ UNCHANGED << i, board, state, elapsed, ret >>
  /\ UNCHANGED game
  /\ UNCHANGED trace

\* Lines 170-175 and 177: over budget, break and return bestMove[1].
TimeBreak ==
  /\ pc = "clock"
  /\ OverBudget(elapsed)
  /\ ret' = Subscript1(bestMove)
  /\ pc' = "done"
  /\ UNCHANGED << i, bestSeverity, bestMove, board, state, elapsed >>
  /\ UNCHANGED game
  /\ UNCHANGED trace

\* Lines 170-175: within budget, on to the next value of i.
NextDepth ==
  /\ pc = "clock"
  /\ ~ OverBudget(elapsed)
  /\ i' = i + 1
  /\ pc' = "loop"
  /\ UNCHANGED << bestSeverity, bestMove, board, state, elapsed, ret >>
  /\ UNCHANGED game
  /\ UNCHANGED trace

\* Line 177: the range is exhausted, return bestMove[1].
LoopEnd ==
  /\ pc = "loop"
  /\ i >= max_depth
  /\ ret' = Subscript1(bestMove)
  /\ pc' = "done"
  /\ UNCHANGED << i, bestSeverity, bestMove, board, state, elapsed >>
  /\ UNCHANGED game
  /\ UNCHANGED trace

Next ==
  \/ \E col \in Cols : Play(col)
  \/ Go
  \/ Tick
  \/ SearchDepth
  \/ EarlyReturn
  \/ Remember
  \/ TimeBreak
  \/ NextDepth
  \/ LoopEnd

Spec == Init /\ [][Next]_vars

TypeOK ==
  /\ pc \in {"play", "loop", "test", "clock", "done"}
  /\ max_depth \in 1 .. MaxDepthBound
  /\ i \in 0 .. max_depth
  /\ ret.tag \in {"none", "return", "TypeError"}

\* ------------------------------------------------------------ properties
FreeSet(b) == { free_cols(b)[k] : k \in 1 .. Len(free_cols(b)) }

\* Dropping in col completes a line for the player to move on b.
WinsAt(b, col) == get_outcome(add_token(b, col)) = b.player

CanWin(b) == \E col \in FreeSet(b) : WinsAt(b, col)

\* Plain depth-n minimax over get_successors with heuristics at the leaves.
RECURSIVE Minimax(_, _, _, _)
Minimax(kind, b, n, player) ==
  IF n = 0 \/ Len(free_cols(b)) = 0 THEN heuristics(b, player)
  ELSE The({ IF kind = "max" THEN CHOOSE v \in vals : \A u \in vals : u <= v
             ELSE CHOOSE v \in vals : \A u \in vals : v <= u :
             vals \in {{ Minimax(IF kind = "max" THEN "min" ELSE "max",
                                 add_token(b, col), n - 1, player) :
                         col \in { x \in Cols : b.board[H - 1][x] = 0 } }} })

\* C1: pruning equivalence.  On every board and at every depth limit the
\* score of minValue and of maxValue, called with the full window, is the
\* score of plain minimax of the same kind.
C1_PruningEquivalence ==
  pc = "test" =>
    LET n == depths[Len(depths)]
    IN /\ state = Minimax("min", brd, n, brd.player)
       /\ maxValue(brd, n, LOSS, WIN, brd.player).score
            = Minimax("max", brd, n, brd.player)

\* C2: a legal move is always returned.  makeMove, asked on a board with a
\* free column, ends by returning one of that board's free columns.
C2_LegalMove ==
  pc = "done" => ret.tag = "return" /\ ret.col \in FreeSet(brd)

\* C3: immediate win.  When some column wins at once for the side to move,
\* makeMove, not cut short by the clock, returns a column that wins at once,
\* with the WIN score.
C3_ImmediateWin ==
  (pc = "done" /\ CanWin(brd) /\ ~ OverBudget(elapsed)) =>
    /\ ret.tag = "return"
    /\ ret.col \in FreeSet(brd)
    /\ WinsAt(brd, ret.col)
    /\ state = WIN

\* The columns after which the opponent has no winning reply.
BlockCols(b) == { col \in FreeSet(b) : ~ CanWin(add_token(b, col)) }

\* C4: forced block.  When the opponent wins next move unless the side to
\* move plays column c, and the side to move cannot win at once, makeMove
\* with max_depth >= 2, not cut short by the clock, returns c.
C4_ForcedBlock ==
  (/\ pc = "done"
   /\ max_depth >= 2
   /\ ~ OverBudget(elapsed)
   /\ ~ CanWin(brd)
   /\ Cardinality(FreeSet(brd)) >= 2
   /\ Cardinality(BlockCols(brd)) = 1) =>
    /\ ret.tag = "return"
    /\ ret.col \in BlockCols(brd)

\* C5: early stop on a proven outcome.  A top-level search whose score is the
\* WIN or the LOSS sentinel is the last one makeMove runs, and makeMove ends
\* by returning the column of that search's successor, a free column of the
\* root board.
C5_EarlyStop ==
  \A k \in 1 .. Len(scores) :
    scores[k] \in {WIN, LOSS} =>
      /\ k = Len(scores)
      /\ pc \in {"test", "done"}
      /\ pc = "done" =>
           /\ moves[k].tag = "Succ"
           /\ ret = [tag |-> "return", col |-> moves[k].col]
           /\ ret.col \in FreeSet(brd)

\* makeMove has returned the move of a search that proved a loss.
C5_Witness ==
  /\ pc = "done"
  /\ Len(scores) >= 2
  /\ scores[Len(scores)] = LOSS
  /\ ret.tag = "return"

\* makeMove has returned the move of a search that proved a win.
C5_WitnessWin ==
  /\ pc = "done"
  /\ Len(scores) >= 2
  /\ scores[Len(scores)] = WIN
  /\ ret.tag = "return"

\* C6: time budget.  The elapsed time decides control only after a completed
\* top-level search; when it is found above the budget no further search is
\* started and makeMove returns the move remembered from the completed
\* searches; at most one search starts after the budget was exceeded.
C6_TimeBudget ==
  /\ [](late <= 1)
  /\ [][(pc = "clock" /\ OverBudget(elapsed)) =>
          /\ pc' = "done"
          /\ depths' = depths
          /\ ret'.tag = "return"
          /\ \E k \in 1 .. Len(moves) :
               moves[k].tag = "Succ" /\ moves[k].col = ret'.col]_vars

\* C7: depth schedule.  Without an early stop and without a time-out the
\* top-level searches are run at the depth limits 1, 2, ..., max_depth, and
\* none is ever run at another depth limit; the root player is the board's
\* player to move.
C7_DepthSchedule ==
  /\ \A k \in 1 .. Len(depths) : depths[k] \in 1 .. max_depth
  /\ \A e \in edges : e.caller = "makeMove" => e.player = brd.player
  /\ (pc = "done" /\ ~ SentinelStop(state) /\ ~ OverBudget(elapsed)) =>
       depths = [k \in 1 .. max_depth |-> k]

\* C8: MAX/MIN tagging.  The top-level call is a maximizing call, a MAX node
\* calls only minValue and a MIN node only maxValue, and every call is
\* passed the root player.
C8_Tagging ==
  \A e \in edges :
    /\ e.player = brd.player
    /\ e.caller = "makeMove" => e.callee = "max"
    /\ e.caller = "max" => e.callee \in {"min", "heuristics"}
    /\ e.caller = "min" => e.callee \in {"max", "heuristics"}

\* C9: full-board terminal.  On a board without a free column, with depth
\* left, maxValue and minValue return no move and the evaluator's score.
C9_FullBoardTerminal ==
  \A r \in rets :
    r.n >= 1 =>
      /\ r.move = None
      /\ r.score = r.heur
      /\ r.score \notin {MaxInit, MinInit}

\* The score of search k is the greatest of the searches run so far.
BestSoFar(k) == \A j \in 1 .. Len(scores) : scores[j] <= scores[k]

\* C10: best-move retention.  After every completed, non-sentinel search the
\* remembered move is the move of a search whose score is the greatest so
\* far, and a search whose score is not the best so far leaves the
\* remembered move unchanged.
C10_BestMoveRetention ==
  /\ [](pc = "clock" =>
          \E k \in 1 .. Len(scores) : BestSoFar(k) /\ moves[k] = bestMove)
  /\ [][(pc = "test" /\ pc' = "clock" /\ ~ BestSoFar(Len(scores))) =>
          bestMove' = bestMove]_vars

\* Some auxiliary facts about the controller.
\* Whatever makeMove returns is the first free column of the root board.
ReturnsFirstFree ==
  (pc = "done" /\ ret.tag = "return") => ret.col = free_cols(brd)[1]

\* A TypeError is raised only on board[1] or bestMove[1] of None.
RaisesOnNone ==
  (pc = "done" /\ ret.tag = "TypeError") =>
    (board = None /\ (SentinelStop(state) \/ bestMove = None))
====
